---- MODULE Spec2Model ----
(***************************************************************************)
(* Model of yimt.core.data.vocab.Vocab (src/yimt/core/data/vocab.py) and   *)
(* of yimt.core.models.sequence_to_sequence                                *)
(* (src/yimt/core/models/sequence_to_sequence.py).                         *)
(*                                                                         *)
(* Python values are modelled as tagged records:                           *)
(*   str    [kind |-> "str",   s |-> <<characters>>]                       *)
(*   bytes  [kind |-> "bytes", s |-> <<characters>>]                       *)
(*   int    [kind |-> "int",   n |-> number]                               *)
(*   None   [kind |-> "none"]                                              *)
(* A str and a bytes with the same characters are different dictionary     *)
(* keys, as in Python 3.  A dict is a function, a list is a sequence; list *)
(* indices and token ids are 0-based in the program, so id i is element    *)
(* i + 1 of the sequence.  Vocab objects live in a heap and are reached    *)
(* through references, so that aliasing between two Vocab objects is       *)
(* something the model can express.                                        *)
(***************************************************************************)
EXTENDS Integers, Sequences, FiniteSets, TLC

\* ------------------------------------------------------------------ bounds

\* Largest number of counted token occurrences (the sum of the finite
\* frequencies) a Vocab is allowed to reach.
MaxCount == 4

\* ------------------------------------------------------------ Python values

PyStr(chars) == [kind |-> "str", s |-> chars]

PyBytes(chars) == [kind |-> "bytes", s |-> chars]

PyInt(i) == [kind |-> "int", n |-> i]

PyNone == [kind |-> "none"]

\* float("inf"), the frequency of a special token.  Frequencies are the
\* naturals extended by this value; it is only ever compared through FreqLT
\* and incremented through FreqInc.
Inf == -1

\* a < b on frequencies (int or float("inf")).
FreqLT(a, b) == IF a = Inf THEN FALSE ELSE IF b = Inf THEN TRUE ELSE a < b

\* f + 1 on frequencies: inf + 1 == inf.
FreqInc(f) == IF f = Inf THEN Inf ELSE f + 1

\* tf.compat.as_text: bytes are decoded, text is returned as is.
as_text(token) == [kind |-> "str", s |-> token.s]

\* isinstance(identifier, (bytes, str))
IsText(x) == x.kind \in {"str", "bytes"}

\* d[k] = val on a dict.
DictSet(d, k, val) == [x \in (DOMAIN d) \cup {k} |-> IF x = k THEN val ELSE d[x]]

\* list.insert(index, x): the index is clamped to the length of the list.
ListInsert(l, index, x) ==
  LET at == IF index > Len(l) THEN Len(l) ELSE index
  IN SubSeq(l, 1, at) \o <<x>> \o SubSeq(l, at + 1, Len(l))

\* ------------------------------------------------------------------- Vocab

\* The attributes of a Vocab right after the first three statements of
\* __init__.
EmptyVocab == [token_to_id |-> <<>>, id_to_token |-> <<>>, frequency |-> <<>>]

\* Vocab.size
size(self) == Len(self.id_to_token)

RECURSIVE InitLoop(_, _, _)
\* The loop of __init__ over enumerate(special_tokens), from `index` on.
InitLoop(self, special_tokens, index) ==
  IF index >= Len(special_tokens) THEN self
  ELSE LET token == special_tokens[index + 1]
       IN InitLoop([token_to_id |-> DictSet(self.token_to_id, token, index),
                    id_to_token |-> ListInsert(self.id_to_token, index, token),
                    frequency |-> ListInsert(self.frequency, index, Inf)],
                   special_tokens, index + 1)

\* Vocab.__init__(special_tokens): special_tokens is
\* [is_none |-> BOOLEAN, tokens |-> list].
Vocab__init__(special_tokens) ==
  IF special_tokens.is_none THEN EmptyVocab
  ELSE InitLoop(EmptyVocab, special_tokens.tokens, 0)

\* Vocab.add without the normalisation of the token to text.
add_raw(self, token) ==
  IF token \notin DOMAIN self.token_to_id
    THEN [token_to_id |-> DictSet(self.token_to_id, token, size(self)),
          id_to_token |-> Append(self.id_to_token, token),
          frequency |-> Append(self.frequency, 1)]
  ELSE [self EXCEPT !.frequency[self.token_to_id[token] + 1] = FreqInc(@)]

\* Vocab.add(token)
add(self, token) ==
  LET text == as_text(token)
  IN IF text \notin DOMAIN self.token_to_id
       THEN [token_to_id |-> DictSet(self.token_to_id, text, size(self)),
             id_to_token |-> Append(self.id_to_token, text),
             frequency |-> Append(self.frequency, 1)]
       ELSE [self EXCEPT !.frequency[self.token_to_id[text] + 1] = FreqInc(@)]

\* list[index] of Python: a negative index counts from the end, an index out
\* of range raises IndexError.
ListGet(l, index) ==
  IF index >= 0 /\ index < Len(l) THEN [raised |-> "none", value |-> l[index + 1]]
  ELSE IF index < 0 /\ -index <= Len(l)
    THEN [raised |-> "none", value |-> l[Len(l) + index + 1]]
  ELSE [raised |-> "IndexError", value |-> PyNone]

\* Vocab.lookup(identifier, default): the returned value, or the exception
\* raised.
lookup(self, identifier, default) ==
  LET found ==
        IF IsText(identifier)
          THEN LET text == as_text(identifier)
               IN [raised |-> "none",
                   value |-> IF text \in DOMAIN self.token_to_id
                               THEN PyInt(self.token_to_id[text])
                               ELSE PyNone]
        ELSE IF identifier.n < size(self)
          THEN ListGet(self.id_to_token, identifier.n)
        ELSE [raised |-> "none", value |-> PyNone]
  IN IF found.raised # "none" THEN found
     ELSE IF found.value = PyNone THEN [raised |-> "none", value |-> default]
     ELSE found

RECURSIVE SortInsert_unstable(_, _, _)
\* SortInsert placing id k before the ids of equal frequency: a sort that does
\* not keep the order of equal keys.
SortInsert_unstable(sorted_ids, k, frequency) ==
  IF sorted_ids = <<>> THEN <<k>>
  ELSE IF ~FreqLT(frequency[k + 1], frequency[Head(sorted_ids) + 1])
    THEN <<k>> \o sorted_ids
  ELSE <<Head(sorted_ids)>> \o SortInsert_unstable(Tail(sorted_ids), k, frequency)

RECURSIVE SortInsert(_, _, _)
\* Inserts id k in a list of ids sorted by frequency descending, after every
\* id whose frequency is not lower: equal keys keep their order.
SortInsert(sorted_ids, k, frequency) ==
  IF sorted_ids = <<>> THEN <<k>>
  ELSE IF FreqLT(frequency[Head(sorted_ids) + 1], frequency[k + 1])
    THEN <<k>> \o sorted_ids
  ELSE <<Head(sorted_ids)>> \o SortInsert(Tail(sorted_ids), k, frequency)

RECURSIVE SortFrom(_, _, _)
SortFrom(sorted_ids, k, frequency) ==
  IF k >= Len(frequency) THEN sorted_ids
  ELSE SortFrom(SortInsert(sorted_ids, k, frequency), k + 1, frequency)

\* sorted(range(self.size), key=lambda k: self._frequency[k], reverse=True):
\* Python's sort is stable, also with reverse=True.
sorted_ids_of(frequency) == SortFrom(<<>>, 0, frequency)

RECURSIVE PruneScan(_, _, _, _, _)
\* The loop "for i in range(new_size - 1, 0, -1)" of prune, from i on: the
\* new_size it leaves.
PruneScan(frequency, sorted_ids, min_frequency, i, new_size) ==
  IF i <= 0 THEN new_size
  ELSE IF FreqLT(frequency[sorted_ids[i + 1] + 1], min_frequency)
    THEN PruneScan(frequency, sorted_ids, min_frequency, i - 1, new_size - 1)
  ELSE new_size

RECURSIVE PruneFill(_, _, _, _, _)
\* The loop "for i in range(new_size)" of prune, from i on.
PruneFill(self, sorted_ids, new_size, i, new_vocab) ==
  IF i >= new_size THEN new_vocab
  ELSE LET index == sorted_ids[i + 1]
           token == self.id_to_token[index + 1]
           frequency == self.frequency[index + 1]
       IN PruneFill(self, sorted_ids, new_size, i + 1,
                    [token_to_id |-> DictSet(new_vocab.token_to_id, token, i),
                     id_to_token |-> Append(new_vocab.id_to_token, token),
                     frequency |-> Append(new_vocab.frequency, frequency)])

\* Vocab.prune without the limit on the absolute size.
prune_uncapped(self, max_size, min_frequency) ==
  LET sorted_ids == sorted_ids_of(self.frequency)
      new_size == PruneScan(self.frequency, sorted_ids, min_frequency,
                            Len(sorted_ids) - 1, Len(sorted_ids))
  IN PruneFill(self, sorted_ids, new_size, 0, EmptyVocab)

\* Vocab.prune(max_size, min_frequency): the attributes of the new Vocab.
prune(self, max_size, min_frequency) ==
  LET sorted_ids == sorted_ids_of(self.frequency)
      scanned == PruneScan(self.frequency, sorted_ids, min_frequency,
                           Len(sorted_ids) - 1, Len(sorted_ids))
      new_size == IF max_size > 0 /\ max_size < scanned THEN max_size ELSE scanned
  IN PruneFill(self, sorted_ids, new_size, 0,
               Vocab__init__([is_none |-> TRUE, tokens |-> <<>>]))

DigitChars == <<"0", "1", "2", "3", "4", "5", "6", "7", "8", "9">>

RECURSIVE Decimal(_)
\* "%d" % i for i >= 0
Decimal(i) ==
  IF i < 10 THEN <<DigitChars[i + 1]>>
  ELSE Decimal(i \div 10) \o <<DigitChars[(i % 10) + 1]>>

\* "averyunlikelytoken%d" % i
SyntheticToken(i) ==
  PyStr(<<"a", "v", "e", "r", "y", "u", "n", "l", "i", "k", "e", "l", "y",
          "t", "o", "k", "e", "n">> \o Decimal(i))

RECURSIVE PadLoop_no_oov(_, _, _, _)
\* PadLoop with a condition that leaves the OOV buckets out.
PadLoop_no_oov(self, multiple, num_oov_buckets, i) ==
  IF size(self) % multiple # 0
    THEN PadLoop_no_oov(add(self, SyntheticToken(i)), multiple, num_oov_buckets, i + 1)
  ELSE self

RECURSIVE PadLoop(_, _, _, _)
\* The while loop of pad_to_multiple, from counter i on.
PadLoop(self, multiple, num_oov_buckets, i) ==
  IF (size(self) + num_oov_buckets) % multiple # 0
    THEN PadLoop(add(self, SyntheticToken(i)), multiple, num_oov_buckets, i + 1)
  ELSE self

\* Vocab.pad_to_multiple(multiple, num_oov_buckets)
pad_to_multiple(self, multiple, num_oov_buckets) ==
  PadLoop(self, multiple, num_oov_buckets, 0)

\* ---------------------------------------------------------------- files

\* A file is the sequence of its characters.
RECURSIVE ReadLines(_, _)
\* Iterating a text file: the lines of `content`, each with its terminating
\* "\n" (the last line may have none); `line` holds the characters of the
\* line being read.
ReadLines(content, line) ==
  IF content = <<>> THEN (IF line = <<>> THEN <<>> ELSE <<line>>)
  ELSE IF Head(content) = "\n"
    THEN <<Append(line, "\n")>> \o ReadLines(Tail(content), <<>>)
  ELSE ReadLines(Tail(content), Append(line, Head(content)))

RECURSIVE rstrip(_, _)
\* str.rstrip(chars)
rstrip(s, chars) ==
  IF s # <<>> /\ s[Len(s)] \in chars THEN rstrip(SubSeq(s, 1, Len(s) - 1), chars)
  ELSE s

RECURSIVE split(_, _, _)
\* str.split(sep) for a one-character separator; `part` holds the characters
\* of the part being read.
split(s, sep, part) ==
  IF s = <<>> THEN <<part>>
  ELSE IF Head(s) = sep THEN <<part>> \o split(Tail(s), sep, <<>>)
  ELSE split(Tail(s), sep, Append(part, Head(s)))

\* The SentencePiece special tokens load ignores: "<unk>", "<s>", "</s>".
SentencePieceSpecial ==
  {PyStr(<<"<", "u", "n", "k", ">">>), PyStr(<<"<", "s", ">">>),
   PyStr(<<"<", "/", "s", ">">>)}

RECURSIVE LoadLoop_line0(_, _, _, _, _)
\* LoadLoop reporting the 0-based index of a duplicate line.
LoadLoop_line0(self, lines, file_format, i, warnings) ==
  IF i >= Len(lines)
    THEN [self |-> self, raised |-> "none", warnings |-> warnings, read |-> i]
  ELSE
    LET stripped == rstrip(lines[i + 1], {"\r", "\n"})
        parts == split(stripped, "\t", <<>>)
        sentencepiece == file_format = "sentencepiece"
        token == PyStr(IF sentencepiece THEN parts[1] ELSE stripped)
    IN IF sentencepiece /\ Len(parts) # 2
         THEN [self |-> self, raised |-> "ValueError", warnings |-> warnings,
               read |-> i + 1]
       ELSE IF sentencepiece /\ token \in SentencePieceSpecial
         THEN LoadLoop_line0(self, lines, file_format, i + 1, warnings)
       ELSE IF token \in DOMAIN self.token_to_id
         THEN LoadLoop_line0(self, lines, file_format, i + 1,
                             Append(warnings, [token |-> token, line |-> i]))
       ELSE LoadLoop_line0([token_to_id |-> DictSet(self.token_to_id, token, Len(self.id_to_token)),
                            id_to_token |-> Append(self.id_to_token, token),
                            frequency |-> Append(self.frequency, 1)],
                           lines, file_format, i + 1, warnings)

RECURSIVE LoadLoop(_, _, _, _, _)
\* The loop of load over enumerate(vocab), from line i on.  The result holds
\* the attributes of the Vocab, the exception raised (the unpacking of
\* split("\t") raises ValueError unless there are exactly two parts), the
\* warnings logged (the token and the line number of each duplicate) and the
\* number of lines read from the file.
LoadLoop(self, lines, file_format, i, warnings) ==
  IF i >= Len(lines)
    THEN [self |-> self, raised |-> "none", warnings |-> warnings, read |-> i]
  ELSE
    LET stripped == rstrip(lines[i + 1], {"\r", "\n"})
        parts == split(stripped, "\t", <<>>)
        sentencepiece == file_format = "sentencepiece"
        token == PyStr(IF sentencepiece THEN parts[1] ELSE stripped)
    IN IF sentencepiece /\ Len(parts) # 2
         THEN [self |-> self, raised |-> "ValueError", warnings |-> warnings,
               read |-> i + 1]
       ELSE IF sentencepiece /\ token \in SentencePieceSpecial
         THEN LoadLoop(self, lines, file_format, i + 1, warnings)
       ELSE IF token \in DOMAIN self.token_to_id
         THEN LoadLoop(self, lines, file_format, i + 1,
                       Append(warnings, [token |-> token, line |-> i + 1]))
       ELSE LoadLoop([token_to_id |-> DictSet(self.token_to_id, token, Len(self.id_to_token)),
                      id_to_token |-> Append(self.id_to_token, token),
                      frequency |-> Append(self.frequency, 1)],
                     lines, file_format, i + 1, warnings)

\* load with the format validated once the file has been read.
load_check_last(self, content, file_format) ==
  LET res == LoadLoop(self, ReadLines(content, <<>>), file_format, 0, <<>>)
  IN IF file_format \notin {"default", "sentencepiece"}
       THEN [res EXCEPT !.raised = "ValueError"]
     ELSE res

\* Vocab.load(path, file_format), the file at `path` holding `content`.  The
\* format is validated before the file is opened.
load(self, content, file_format) ==
  IF file_format \notin {"default", "sentencepiece"}
    THEN [self |-> self, raised |-> "ValueError", warnings |-> <<>>, read |-> 0]
  ELSE LoadLoop(self, ReadLines(content, <<>>), file_format, 0, <<>>)

RECURSIVE WriteLoop(_, _)
\* The loop of serialize: each token is written, then a line feed.
WriteLoop(tokens, content) ==
  IF tokens = <<>> THEN content
  ELSE WriteLoop(Tail(tokens), content \o Head(tokens).s \o <<"\n">>)

\* Vocab.serialize(path): the file it leaves at `path`.
serialize(self) == [exists |-> TRUE, content |-> WriteLoop(self.id_to_token, <<>>)]

\* Vocab.from_file(path, file_format): cls() and load; the result of load,
\* whose self is the Vocab returned.
from_file(content, file_format) ==
  load(Vocab__init__([is_none |-> TRUE, tokens |-> <<>>]), content, file_format)

\* ---------------------------------------------------------------- state

\* heap:           the attributes of every live Vocab object, by address
\* vocab:          the reference held by the caller's variable for the Vocab it
\*                 constructed
\* pruned:         the reference returned by the last vocab.prune(...), or Null
\* special_tokens: the argument the Vocab was constructed with
\* last:           the last call: the operation, the variable it was called
\*                 through, its arguments, the heap before it and its outcome
\* disk:           the file at the path the caller serializes the Vocab to
\* model:          the attributes of the SequenceToSequence model the caller
\*                 holds
\* frame:          the activation of pad_to_multiple while it runs one
\*                 iteration per step (its arguments and its local i), or
\*                 NoFrame
VARIABLES heap, vocab, pruned, special_tokens, last, disk, model, frame

vars == <<heap, vocab, pruned, special_tokens, last, disk, model, frame>>

\* The reference that refers to no object.
Null == 0

\* No file at the path yet.
NoFile == [exists |-> FALSE, content |-> <<>>]

\* No SequenceToSequence model constructed yet.
NoModel == [constructed |-> FALSE]

\* No method of Vocab is running.
NoFrame == [active |-> FALSE]

\* ---------------------------------------------------------------- inputs

TokA == PyStr(<<"a">>)

TokB == PyStr(<<"b">>)

BytesA == PyBytes(<<"a">>)

BOS == PyStr(<<"<", "s", ">">>)

EOS == PyStr(<<"<", "/", "s", ">">>)

\* The special_tokens arguments of the constructor: None, a list of two
\* tokens and a list that repeats a token.
SpecialLists ==
  {[is_none |-> TRUE, tokens |-> <<>>],
   [is_none |-> FALSE, tokens |-> <<BOS, EOS>>],
   [is_none |-> FALSE, tokens |-> <<BOS, BOS>>]}

\* The tokens passed to add.
AddTokens == {TokA, TokB, BytesA, BOS, SyntheticToken(0)}

\* "a\r\nb\na": a default-format file with a duplicate on line 3.
FileDefault == <<"a", "\r", "\n", "b", "\n", "a">>

\* "b\n\nb\n": a default-format file with an empty line and a duplicate on
\* line 3.
FileBlank == <<"b", "\n", "\n", "b", "\n">>

\* "<s>\t0\nb\t1\na": a sentencepiece file whose last line has no score.
FileSentencePiece == <<"<", "s", ">", "\t", "0", "\n", "b", "\t", "1", "\n", "a">>

\* The files and formats passed to load.
LoadInputs ==
  {[content |-> FileDefault, file_format |-> "default"],
   [content |-> FileBlank, file_format |-> "default"],
   [content |-> FileDefault, file_format |-> "binary"],
   [content |-> FileSentencePiece, file_format |-> "sentencepiece"]}

\* The identifiers and the default passed to lookup.
Identifiers ==
  {TokA, BytesA, BOS} \cup {PyInt(i) : i \in {-2, -1, 0, 1, MaxCount + 2}}

Defaults == {PyStr(<<"?">>)}

\* The arguments of prune.
MaxSizes == {0, 1, 2}

MinFrequencies == (1 .. MaxCount) \cup {Inf}

\* The arguments of pad_to_multiple.
Multiples == {1, 2, 3}

OovBuckets == {0, 1}

Ref(via) == IF via = "vocab" THEN vocab ELSE pruned

RECURSIVE Count(_)
\* The sum of the finite frequencies of a list of frequencies.
Count(frequency) ==
  IF frequency = <<>> THEN 0
  ELSE (IF Head(frequency) = Inf THEN 0 ELSE Head(frequency)) + Count(Tail(frequency))

\* The model follows a Vocab while its counted occurrences are within bounds.
WithinBounds(self) == Count(self.frequency) <= MaxCount

\* No new object: the address of an object that is live already.
NewObject_alias(live) == CHOOSE a \in live : TRUE

\* The address of a new object: the lowest address no live reference holds.
NewObject(live) == CHOOSE a \in 1 .. Cardinality(live) + 1 : a \notin live

\* The heap with the object at address a set to val.
HeapPut(h, a, val) == [x \in (DOMAIN h) \cup {a} |-> IF x = a THEN val ELSE h[x]]

\* --------------------------------------------------------------- actions

Init ==
  \E st \in SpecialLists :
    /\ heap = <<Vocab__init__(st)>>
    /\ vocab = 1
    /\ pruned = Null
    /\ special_tokens = st
    /\ last = [op |-> "__init__", via |-> "vocab", args |-> [special_tokens |-> st],
               pre |-> <<>>, ret |-> [raised |-> "none"]]
    /\ disk = NoFile
    /\ model = NoModel
    /\ frame = NoFrame

\* <via>.add(token)
Add(via, token) ==
  /\ Ref(via) # Null
  /\ LET new == add(heap[Ref(via)], token)
     IN /\ WithinBounds(new)
        /\ heap' = HeapPut(heap, Ref(via), new)
  /\ last' = [op |-> "add", via |-> via, args |-> [token |-> token],
              pre |-> heap, ret |-> [raised |-> "none"]]
  /\ UNCHANGED <<vocab, pruned, special_tokens, disk, model, frame>>

\* <via>.load(path, file_format), the file holding content
Load(via, content, file_format) ==
  /\ Ref(via) # Null
  /\ LET res == load(heap[Ref(via)], content, file_format)
     IN /\ WithinBounds(res.self)
        /\ heap' = HeapPut(heap, Ref(via), res.self)
        /\ last' = [op |-> "load", via |-> via,
                    args |-> [content |-> content, file_format |-> file_format],
                    pre |-> heap,
                    ret |-> [raised |-> res.raised, warnings |-> res.warnings,
                             read |-> res.read]]
  /\ UNCHANGED <<vocab, pruned, special_tokens, disk, model, frame>>

\* <via>.lookup(identifier, default)
Lookup(via, identifier, default) ==
  /\ Ref(via) # Null
  /\ last' = [op |-> "lookup", via |-> via,
              args |-> [identifier |-> identifier, default |-> default],
              pre |-> heap,
              ret |-> lookup(heap[Ref(via)], identifier, default)]
  /\ UNCHANGED <<heap, vocab, pruned, special_tokens, disk, model, frame>>

\* pruned = vocab.prune(max_size, min_frequency): new_vocab = Vocab() is a new
\* object; the object pruned referred to before is no longer reachable.
Prune(max_size, min_frequency) ==
  LET new_vocab == NewObject({vocab})
  IN /\ heap' = HeapPut([a \in {vocab} |-> heap[a]], new_vocab,
                        prune(heap[vocab], max_size, min_frequency))
     /\ pruned' = new_vocab
     /\ last' = [op |-> "prune", via |-> "vocab",
                 args |-> [max_size |-> max_size, min_frequency |-> min_frequency],
                 pre |-> heap, ret |-> [raised |-> "none"]]
     /\ UNCHANGED <<vocab, special_tokens, disk, model, frame>>

\* <via>.pad_to_multiple(multiple, num_oov_buckets)
PadToMultiple(via, multiple, num_oov_buckets) ==
  /\ Ref(via) # Null
  /\ LET new == pad_to_multiple(heap[Ref(via)], multiple, num_oov_buckets)
     IN /\ WithinBounds(new)
        /\ heap' = HeapPut(heap, Ref(via), new)
  /\ last' = [op |-> "pad_to_multiple", via |-> via,
              args |-> [multiple |-> multiple, num_oov_buckets |-> num_oov_buckets],
              pre |-> heap, ret |-> [raised |-> "none"]]
  /\ UNCHANGED <<vocab, pruned, special_tokens, disk, model, frame>>

\* del pruned: the caller drops the pruned Vocab.
Release ==
  /\ pruned # Null
  /\ heap' = [a \in {vocab} |-> heap[a]]
  /\ pruned' = Null
  /\ last' = [op |-> "del", via |-> "pruned", args |-> [none |-> TRUE],
              pre |-> heap, ret |-> [raised |-> "none"]]
  /\ UNCHANGED <<vocab, special_tokens, disk, model, frame>>

\* <via>.serialize(path)
Serialize(via) ==
  /\ Ref(via) # Null
  /\ disk' = serialize(heap[Ref(via)])
  /\ last' = [op |-> "serialize", via |-> via, args |-> [none |-> TRUE],
              pre |-> heap, ret |-> [raised |-> "none"]]
  /\ UNCHANGED <<heap, vocab, pruned, special_tokens, model, frame>>

\* Vocab.from_file(path, file_format) on the file serialize wrote; the caller
\* looks at the Vocab it returns and drops it.
FromFile(file_format) ==
  /\ disk.exists
  /\ LET res == from_file(disk.content, file_format)
     IN last' = [op |-> "from_file", via |-> "disk",
                 args |-> [content |-> disk.content, file_format |-> file_format],
                 pre |-> heap,
                 ret |-> [raised |-> res.raised, warnings |-> res.warnings,
                          read |-> res.read, vocab |-> res.self]]
  /\ UNCHANGED <<heap, vocab, pruned, special_tokens, disk, model, frame>>

\* A caller that builds one Vocab and, whenever it prunes it, looks at the
\* pruned Vocab and drops it before it goes on.
Next ==
  \/ pruned = Null /\ \E token \in AddTokens : Add("vocab", token)
  \/ pruned = Null /\ \E input \in LoadInputs :
       Load("vocab", input.content, input.file_format)
  \/ pruned = Null /\ \E identifier \in Identifiers, default \in Defaults :
       Lookup("vocab", identifier, default)
  \/ pruned = Null /\ \E max_size \in MaxSizes, min_frequency \in MinFrequencies :
       Prune(max_size, min_frequency)
  \/ pruned = Null /\ \E multiple \in Multiples, num_oov_buckets \in OovBuckets :
       PadToMultiple("vocab", multiple, num_oov_buckets)
  \/ Release

Spec == Init /\ [][Next]_vars

\* The variables a Vocab is called through.
Vias == {"vocab", "pruned"}

\* A caller that keeps the pruned Vocab and goes on calling both.
NextAlias ==
  \/ \E via \in Vias, token \in {TokA, TokB} : Add(via, token)
  \/ \E via \in Vias : Load(via, FileDefault, "default")
  \/ \E min_frequency \in {1, 2} : Prune(0, min_frequency)
  \/ \E via \in Vias : PadToMultiple(via, 2, 0)

SpecAlias == Init /\ [][NextAlias]_vars

\* "a\r": a token that ends in a carriage return.
TokCR == PyStr(<<"a", "\r">>)

\* "a\nb": a token that holds a line feed.
TokLF == PyStr(<<"a", "\n", "b">>)

\* The tokens of the token lists a Vocab is built from before it is
\* serialized.
RoundTripTokens == {TokA, TokB, TokCR, TokLF}

\* A caller that builds a Vocab from tokens, serializes it and loads the file
\* into a new Vocab.
NextRoundTrip ==
  \/ \E token \in RoundTripTokens : Add("vocab", token)
  \/ Serialize("vocab")
  \/ FromFile("default")

SpecRoundTrip == Init /\ [][NextRoundTrip]_vars

\* ------------------------------------------------------ SequenceToSequence
\* Model of yimt.core.models.sequence_to_sequence.  The inputters, the
\* encoder and the decoder are collaborators the module calls: an inputter
\* is modelled by its class, a decoder by whether it returns attention, and a
\* tensor by what the code below depends on (its origin, the decoder state it
\* was computed from, its number of hypotheses per input).

PyBool(b) == [kind |-> "bool", b |-> b]

\* A Python list, by its elements.
PyList(l) == [kind |-> "list", l |-> l]

\* bool(x), as `if x` and `not x` evaluate it.
truthy(x) ==
  CASE x.kind = "none" -> FALSE
    [] x.kind = "bool" -> x.b
    [] x.kind = "int" -> x.n # 0
    [] x.kind \in {"str", "bytes"} -> x.s # <<>>
    [] x.kind = "list" -> x.l # <<>>
    [] OTHER -> TRUE

\* dict.get(key, default) on a dict with string keys.
Get(dict, key, default) == IF key \in DOMAIN dict THEN dict[key] ELSE default

\* The dict with no key.
EmptyDict == [key \in {} |-> PyNone]

\* EmbeddingsSharingLevel
NONE == 0

SOURCE_TARGET_INPUT == 1

TARGET == 2

ALL == 3

\* share_input_embeddings with the levels of share_target_embeddings.
share_input_embeddings_target(level) == level \in {TARGET, ALL}

\* EmbeddingsSharingLevel.share_input_embeddings(level)
share_input_embeddings(level) == level \in {SOURCE_TARGET_INPUT, ALL}

\* EmbeddingsSharingLevel.share_target_embeddings(level)
share_target_embeddings(level) == level \in {TARGET, ALL}

\* inputters.WordEmbedder, with the tokenizer it holds
WordEmbedder(in_graph) ==
  [class |-> "WordEmbedder", inputters |-> <<>>, tokenizer |-> [in_graph |-> in_graph]]

\* An inputter of another class.
CharEmbedder == [class |-> "CharEmbedder", inputters |-> <<>>]

\* inputters.ParallelInputter(inputters)
ParallelInputter(inputters) == [class |-> "ParallelInputter", inputters |-> inputters]

\* isinstance(obj, class), no modelled class being a subclass of another
isinstance(obj, class) == obj.class = class

\* SequenceToSequence.__init__: the exception raised and the attributes of
\* the object.
SequenceToSequence__init__(source_inputter, target_inputter, encoder, decoder, share_embeddings) ==
  LET source_inputters ==
        IF isinstance(source_inputter, "ParallelInputter")
          THEN source_inputter.inputters
        ELSE <<source_inputter>>
  IN IF ~isinstance(target_inputter, "WordEmbedder")
       THEN [raised |-> "TypeError", self |-> NoModel]
     ELSE IF /\ share_input_embeddings(share_embeddings)
             /\ \E i \in DOMAIN source_inputters :
                  ~isinstance(source_inputters[i], "WordEmbedder")
       THEN [raised |-> "TypeError", self |-> NoModel]
     ELSE [raised |-> "none",
           self |-> [constructed |-> TRUE,
                     features_inputter |-> source_inputter,
                     labels_inputter |-> target_inputter,
                     share_parameters |-> share_input_embeddings(share_embeddings),
                     encoder |-> encoder,
                     decoder |-> decoder,
                     share_embeddings |-> share_embeddings,
                     initialized |-> FALSE,
                     params |-> EmptyDict,
                     noiser |-> FALSE,
                     tflite_mode |-> FALSE]]

\* SequenceToSequence.initialize(data_config, params): the params are kept
\* and, with contrastive_learning, a noiser is set on the labels inputter.
initialize(self, params) ==
  [self EXCEPT !.initialized = TRUE,
               !.params = params,
               !.noiser = truthy(Get(params, "contrastive_learning", PyNone))]

\* A Python dict with string keys, by its items.
PyDict(d) == [kind |-> "dict", d |-> d]

\* A tensor, by its name and the properties given in fields.
Tensor(name, fields) == [kind |-> "tensor", name |-> name] @@ fields

\* self.encoder(source_inputs, ...): the encoder outputs.
Encoder(encoder, features) == Tensor("encoder_outputs", [features |-> features])

\* self.decoder.initial_state(memory=encoder_outputs, ...)
DecoderInitialState(encoder_outputs) ==
  Tensor("initial_state", [memory |-> encoder_outputs])

\* self.decoder(inputs, length, state=state, ...): the logits, the final
\* state and the attention, which is None for a decoder without attention.
Decoder(decoder, inputs, state) ==
  [logits |-> Tensor("logits", [inputs |-> inputs, state |-> state]),
   state |-> Tensor("final_state", [inputs |-> inputs, state |-> state]),
   attention |-> IF decoder.attention
                   THEN Tensor("attention", [inputs |-> inputs, steps |-> "all"])
                 ELSE PyNone]

\* _decode_target with the noisy target decoded from the state the gold
\* decode returned.
_decode_target_final_state(self, labels, encoder_outputs) ==
  LET params == self.params
      initial_state == DecoderInitialState(encoder_outputs)
      gold == Decoder(self.decoder, "ids", initial_state)
      outputs == [logits |-> gold.logits, attention |-> gold.attention]
      noisy_ids == Get(labels.d, "noisy_ids", PyNone)
  IN IF noisy_ids.kind # "none" /\ truthy(Get(params, "contrastive_learning", PyNone))
       THEN PyDict(DictSet(outputs, "noisy_logits",
                           Decoder(self.decoder, "noisy_ids", gold.state).logits))
     ELSE PyDict(outputs)

\* SequenceToSequence._decode_target: the outputs dict.
_decode_target(self, labels, encoder_outputs) ==
  LET params == self.params
      initial_state == DecoderInitialState(encoder_outputs)
      gold == Decoder(self.decoder, "ids", initial_state)
      outputs == [logits |-> gold.logits, attention |-> gold.attention]
      noisy_ids == Get(labels.d, "noisy_ids", PyNone)
  IN IF noisy_ids.kind # "none" /\ truthy(Get(params, "contrastive_learning", PyNone))
       THEN PyDict(DictSet(outputs, "noisy_logits",
                           Decoder(self.decoder, "noisy_ids", initial_state).logits))
     ELSE PyDict(outputs)

\* self.decoder.dynamic_decode(...): beam_size hypotheses per input, and the
\* alignment history, which is None for a decoder without attention.
DynamicDecode(decoder, beam_size, initial_state) ==
  [sampled_ids |-> Tensor("ids", [hyp |-> beam_size, replaced |-> FALSE, noise |-> FALSE]),
   sampled_length |-> Tensor("length", [hyp |-> beam_size, noise |-> FALSE]),
   log_probs |-> Tensor("log_probs", [hyp |-> beam_size]),
   alignment |-> IF decoder.attention
                   THEN Tensor("alignment", [hyp |-> beam_size])
                 ELSE PyNone]

\* str.lower() on the names of noise modules.
lower(name) ==
  CASE name = "Dropout" -> "dropout"
    [] name = "Replacement" -> "replacement"
    [] name = "Permutation" -> "permutation"
    [] OTHER -> name

\* _add_noise(tokens, lengths, params, ...)
_add_noise(tokens, lengths, params) ==
  IF params.kind # "list"
    THEN [raised |-> "ValueError", tokens |-> tokens, lengths |-> lengths]
  ELSE IF \E i \in DOMAIN params.l :
            lower(params.l[i].noise_type) \notin {"dropout", "replacement", "permutation"}
    THEN [raised |-> "ValueError", tokens |-> tokens, lengths |-> lengths]
  ELSE [raised |-> "none",
        tokens |-> [tokens EXCEPT !.noise = TRUE],
        lengths |-> [lengths EXCEPT !.noise = TRUE]]

\* replace_unknown_target_check made whatever replace_unknown_target is.
replace_unknown_target_check_always(self, alignment) ==
  IF alignment.kind = "none" THEN "TypeError"
  ELSE IF ~isinstance(self.features_inputter, "WordEmbedder") THEN "TypeError"
  ELSE "none"

\* _dynamic_decode, the checks made when replace_unknown_target is set: the
\* exception raised.
replace_unknown_target_check(self, alignment) ==
  IF ~truthy(Get(self.params, "replace_unknown_target", PyBool(FALSE))) THEN "none"
  ELSE IF alignment.kind = "none" THEN "TypeError"
  ELSE IF ~isinstance(self.features_inputter, "WordEmbedder") THEN "TypeError"
  ELSE "none"

\* _dynamic_decode, the replacement of the unknown target tokens when
\* replace_unknown_target is set and its checks passed.
maybe_replace_unknown_target(self, target_tokens) ==
  IF truthy(Get(self.params, "replace_unknown_target", PyBool(FALSE)))
    THEN [target_tokens EXCEPT !.replaced = TRUE]
  ELSE target_tokens

\* _dynamic_decode, what tflite_mode returns: target_tokens[:, :1] of the
\* transposed tokens when beam_size > 1, squeezed.
tflite_output(target_tokens, beam_size) ==
  [target_tokens EXCEPT !.hyp = IF beam_size > 1 THEN 1 ELSE target_tokens.hyp]

\* maybe_add_noise with the alignment left as the decoder returned it.
maybe_add_noise_stale(self, target_tokens, sampled_length, alignment) ==
  LET decoding_noise == Get(self.params, "decoding_noise", PyNone)
      noisy == _add_noise(target_tokens, sampled_length, decoding_noise)
  IN IF truthy(decoding_noise)
       THEN [raised |-> noisy.raised, target_tokens |-> noisy.tokens,
             sampled_length |-> noisy.lengths, alignment |-> alignment]
     ELSE [raised |-> "none", target_tokens |-> target_tokens,
           sampled_length |-> sampled_length, alignment |-> alignment]

\* _dynamic_decode, the noise added to the predictions when decoding_noise is
\* set: the alignment is invalidated.
maybe_add_noise(self, target_tokens, sampled_length, alignment) ==
  LET decoding_noise == Get(self.params, "decoding_noise", PyNone)
      noisy == _add_noise(target_tokens, sampled_length, decoding_noise)
  IN IF truthy(decoding_noise)
       THEN [raised |-> noisy.raised, target_tokens |-> noisy.tokens,
             sampled_length |-> noisy.lengths, alignment |-> PyNone]
     ELSE [raised |-> "none", target_tokens |-> target_tokens,
           sampled_length |-> sampled_length, alignment |-> alignment]

\* _dynamic_decode, the predictions dict: the detokenized text with a
\* tokenizer that runs in graph, the tokens, their length and the alignment
\* that is not None otherwise.
predictions_dict(self, log_probs, target_tokens, sampled_length, alignment) ==
  LET predictions == [log_probs |-> log_probs]
  IN IF self.labels_inputter.tokenizer.in_graph
       THEN DictSet(predictions, "text",
                    Tensor("text", [hyp |-> target_tokens.hyp, of |-> target_tokens]))
     ELSE LET with_tokens ==
                DictSet(DictSet(predictions, "tokens", target_tokens),
                        "length", sampled_length)
          IN IF alignment.kind # "none"
               THEN DictSet(with_tokens, "alignment", alignment)
             ELSE with_tokens

\* value[:, :num_hypotheses]
SliceHypotheses(value, num_hypotheses) ==
  [value EXCEPT !.hyp = IF value.hyp < num_hypotheses THEN value.hyp ELSE num_hypotheses]

\* restrict_hypotheses without the comparison to the beam width.
restrict_hypotheses_unchecked(self, predictions, beam_size) ==
  LET num_hypotheses == Get(self.params, "num_hypotheses", PyInt(1)).n
  IN IF num_hypotheses > 0
       THEN [raised |-> "none",
             predictions |-> [key \in DOMAIN predictions |->
                                SliceHypotheses(predictions[key], num_hypotheses)]]
     ELSE [raised |-> "none", predictions |-> predictions]

\* _dynamic_decode, the restriction of the number of returned hypotheses.
restrict_hypotheses(self, predictions, beam_size) ==
  LET num_hypotheses == Get(self.params, "num_hypotheses", PyInt(1)).n
  IN IF num_hypotheses > 0
       THEN IF num_hypotheses > beam_size
              THEN [raised |-> "ValueError", predictions |-> predictions]
            ELSE [raised |-> "none",
                  predictions |-> [key \in DOMAIN predictions |->
                                     SliceHypotheses(predictions[key], num_hypotheses)]]
     ELSE [raised |-> "none", predictions |-> predictions]

\* SequenceToSequence._dynamic_decode: the exception raised and the
\* predictions returned.
_dynamic_decode(self, features, encoder_outputs) ==
  LET params == self.params
      beam_size == Get(params, "beam_width", PyInt(1)).n
      initial_state == DecoderInitialState(encoder_outputs)
      decoded == DynamicDecode(self.decoder, beam_size, initial_state)
      target_tokens ==
        IF self.tflite_mode THEN decoded.sampled_ids
        ELSE [decoded.sampled_ids EXCEPT !.name = "tokens"]
      checked == replace_unknown_target_check(self, decoded.alignment)
      replaced == maybe_replace_unknown_target(self, target_tokens)
      noisy == maybe_add_noise(self, replaced, decoded.sampled_length, decoded.alignment)
      predictions == predictions_dict(self, decoded.log_probs, noisy.target_tokens,
                                      noisy.sampled_length, noisy.alignment)
      restricted == restrict_hypotheses(self, predictions, beam_size)
  IN IF checked # "none" THEN [raised |-> checked, predictions |-> PyNone]
     ELSE IF self.tflite_mode
       THEN [raised |-> "none", predictions |-> tflite_output(replaced, beam_size)]
     ELSE IF noisy.raised # "none" THEN [raised |-> noisy.raised, predictions |-> PyNone]
     ELSE IF restricted.raised # "none"
       THEN [raised |-> restricted.raised, predictions |-> PyNone]
     ELSE [raised |-> "none", predictions |-> PyDict(restricted.predictions)]

\* call with the two decodes as alternatives.
call_either(self, features, labels, training) ==
  LET encoder_outputs == Encoder(self.encoder, features)
      decode_target == labels.kind # "none"
      dynamic_decode == ~decode_target /\ ~truthy(training)
      outputs ==
        IF decode_target THEN _decode_target(self, labels, encoder_outputs) ELSE PyNone
      decoded ==
        IF dynamic_decode THEN _dynamic_decode(self, features, encoder_outputs)
        ELSE [raised |-> "none", predictions |-> PyNone]
  IN [raised |-> decoded.raised,
      outputs |-> IF decoded.raised = "none" THEN outputs ELSE PyNone,
      predictions |-> decoded.predictions,
      calls |-> <<"encoder">>
                \o (IF decode_target THEN <<"_decode_target">> ELSE <<>>)
                \o (IF dynamic_decode THEN <<"_dynamic_decode">> ELSE <<>>)]

\* SequenceToSequence.call: the exception raised, the outputs and the
\* predictions returned, and the calls made, in order.
call(self, features, labels, training) ==
  LET encoder_outputs == Encoder(self.encoder, features)
      decode_target == labels.kind # "none"
      dynamic_decode == ~truthy(training)
      outputs ==
        IF decode_target THEN _decode_target(self, labels, encoder_outputs) ELSE PyNone
      decoded ==
        IF dynamic_decode THEN _dynamic_decode(self, features, encoder_outputs)
        ELSE [raised |-> "none", predictions |-> PyNone]
  IN [raised |-> decoded.raised,
      outputs |-> IF decoded.raised = "none" THEN outputs ELSE PyNone,
      predictions |-> decoded.predictions,
      calls |-> <<"encoder">>
                \o (IF decode_target THEN <<"_decode_target">> ELSE <<>>)
                \o (IF dynamic_decode THEN <<"_dynamic_decode">> ELSE <<>>)]

\* A Python float, by its literal.
PyFloat(literal) == [kind |-> "float", x |-> literal]

\* compute_loss with the guided alignment applied whatever training is.
compute_loss_always_guided(self, outputs, labels, training) ==
  LET params == self.params
      outputs_dict == IF outputs.kind # "dict" THEN [logits |-> outputs] ELSE outputs.d
      logits == outputs_dict["logits"]
      noisy_logits == Get(outputs_dict, "noisy_logits", PyNone)
      attention == Get(outputs_dict, "attention", PyNone)
      cross_entropy ==
        [fn |-> "cross_entropy_sequence_loss", logits |-> logits,
         label_smoothing |-> Get(params, "label_smoothing", PyFloat("0.0")),
         training |-> training]
      gold_alignments == Get(labels.d, "alignment", PyNone)
      guided_alignment_type == Get(params, "guided_alignment_type", PyNone)
  IN IF noisy_logits.kind # "none" /\ truthy(Get(params, "contrastive_learning", PyNone))
       THEN [loss |-> <<[fn |-> "max_margin_loss", logits |-> logits,
                         noisy_logits |-> noisy_logits]>>,
             warnings |-> <<>>]
     ELSE IF gold_alignments.kind # "none" /\ guided_alignment_type.kind # "none"
       THEN IF attention.kind = "none"
              THEN [loss |-> <<cross_entropy>>,
                    warnings |-> <<"guided alignment will not be applied">>]
            ELSE [loss |-> <<cross_entropy,
                             [fn |-> "guided_alignment_cost",
                              attention |-> [attention EXCEPT !.steps = "all but last"],
                              gold_alignments |-> gold_alignments,
                              cost_type |-> guided_alignment_type]>>,
                  warnings |-> <<>>]
     ELSE [loss |-> <<cross_entropy>>, warnings |-> <<>>]

\* SequenceToSequence.compute_loss: the terms summed in the loss returned
\* and the warnings logged.
compute_loss(self, outputs, labels, training) ==
  LET params == self.params
      outputs_dict == IF outputs.kind # "dict" THEN [logits |-> outputs] ELSE outputs.d
      logits == outputs_dict["logits"]
      noisy_logits == Get(outputs_dict, "noisy_logits", PyNone)
      attention == Get(outputs_dict, "attention", PyNone)
      cross_entropy ==
        [fn |-> "cross_entropy_sequence_loss", logits |-> logits,
         label_smoothing |-> Get(params, "label_smoothing", PyFloat("0.0")),
         training |-> training]
      gold_alignments == Get(labels.d, "alignment", PyNone)
      guided_alignment_type == Get(params, "guided_alignment_type", PyNone)
  IN IF noisy_logits.kind # "none" /\ truthy(Get(params, "contrastive_learning", PyNone))
       THEN [loss |-> <<[fn |-> "max_margin_loss", logits |-> logits,
                         noisy_logits |-> noisy_logits]>>,
             warnings |-> <<>>]
     ELSE IF /\ truthy(training)
             /\ gold_alignments.kind # "none" /\ guided_alignment_type.kind # "none"
       THEN IF attention.kind = "none"
              THEN [loss |-> <<cross_entropy>>,
                    warnings |-> <<"guided alignment will not be applied">>]
            ELSE [loss |-> <<cross_entropy,
                             [fn |-> "guided_alignment_cost",
                              attention |-> [attention EXCEPT !.steps = "all but last"],
                              gold_alignments |-> gold_alignments,
                              cost_type |-> guided_alignment_type]>>,
                  warnings |-> <<>>]
     ELSE [loss |-> <<cross_entropy>>, warnings |-> <<>>]

\* No Vocab, no file and no model: the state before a model is constructed.
InitModel ==
  /\ heap = <<>>
  /\ vocab = Null
  /\ pruned = Null
  /\ special_tokens = [is_none |-> TRUE, tokens |-> <<>>]
  /\ disk = NoFile
  /\ model = NoModel
  /\ frame = NoFrame
  /\ last = [op |-> "import", via |-> "model", args |-> [none |-> TRUE],
             pre |-> <<>>, ret |-> [raised |-> "none"]]

\* model = SequenceToSequence(source_inputter, target_inputter, encoder,
\* decoder, share_embeddings)
Construct(source_inputter, target_inputter, decoder, share_embeddings) ==
  /\ ~model.constructed
  /\ LET res == SequenceToSequence__init__(source_inputter, target_inputter,
                                           "encoder", decoder, share_embeddings)
     IN /\ model' = res.self
        /\ last' = [op |-> "SequenceToSequence", via |-> "model",
                    args |-> [source_inputter |-> source_inputter,
                              target_inputter |-> target_inputter,
                              decoder |-> decoder,
                              share_embeddings |-> share_embeddings],
                    pre |-> heap, ret |-> [raised |-> res.raised]]
  /\ UNCHANGED <<heap, vocab, pruned, special_tokens, disk, frame>>

\* model.initialize(data_config, params), once
Initialize(params) ==
  /\ model.constructed
  /\ ~model.initialized
  /\ model' = initialize(model, params)
  /\ last' = [op |-> "initialize", via |-> "model", args |-> [params |-> params],
              pre |-> heap, ret |-> [raised |-> "none"]]
  /\ UNCHANGED <<heap, vocab, pruned, special_tokens, disk, frame>>

\* model.tflite_mode = True, when the model is exported for TensorFlow Lite
SetTfliteMode ==
  /\ model.constructed
  /\ model.initialized
  /\ ~model.tflite_mode
  /\ model' = [model EXCEPT !.tflite_mode = TRUE]
  /\ last' = [op |-> "tflite_mode", via |-> "model", args |-> [none |-> TRUE],
              pre |-> heap, ret |-> [raised |-> "none"]]
  /\ UNCHANGED <<heap, vocab, pruned, special_tokens, disk, frame>>

\* model(features, labels=labels, training=training)
Call(labels, training) ==
  /\ model.constructed
  /\ model.initialized
  /\ last' = [op |-> "call", via |-> "model",
              args |-> [labels |-> labels, training |-> training],
              pre |-> heap, ret |-> call(model, "features", labels, training)]
  /\ UNCHANGED <<heap, vocab, pruned, special_tokens, disk, model, frame>>

\* model.compute_loss(outputs, labels, training=training)
ComputeLoss(outputs, labels, training) ==
  /\ model.constructed
  /\ model.initialized
  /\ last' = [op |-> "compute_loss", via |-> "model",
              args |-> [outputs |-> outputs, labels |-> labels, training |-> training],
              pre |-> heap,
              ret |-> LET res == compute_loss(model, outputs, labels, training)
                      IN [raised |-> "none", loss |-> res.loss,
                          warnings |-> res.warnings]]
  /\ UNCHANGED <<heap, vocab, pruned, special_tokens, disk, model, frame>>

\* The inputters, decoders and sharing levels a model is constructed with.
SourceInputters ==
  {WordEmbedder(FALSE), CharEmbedder,
   ParallelInputter(<<WordEmbedder(FALSE), WordEmbedder(FALSE)>>),
   ParallelInputter(<<WordEmbedder(FALSE), CharEmbedder>>)}

TargetInputters == {WordEmbedder(FALSE), WordEmbedder(TRUE), CharEmbedder}

Decoders == {[attention |-> TRUE], [attention |-> FALSE]}

SharingLevels == {NONE, SOURCE_TARGET_INPUT, TARGET, ALL}

\* The decoding parameters: each is left out or set.  decoding_noise is an
\* empty list, a list of one module, a list of one module of an unknown type
\* or a string.
BeamWidths == {EmptyDict, [beam_width |-> PyInt(2)]}

NumHypotheses == {EmptyDict, [num_hypotheses |-> PyInt(0)], [num_hypotheses |-> PyInt(2)]}

ReplaceUnknownTargets == {EmptyDict, [replace_unknown_target |-> PyBool(TRUE)]}

DecodingNoises ==
  {EmptyDict,
   [decoding_noise |-> PyList(<<>>)],
   [decoding_noise |-> PyList(<<[noise_type |-> "Dropout"]>>)],
   [decoding_noise |-> PyList(<<[noise_type |-> "shuffle"]>>)],
   [decoding_noise |-> PyStr(<<"d", "r", "o", "p", "o", "u", "t">>)]}

DecodingParams ==
  {b @@ h @@ r @@ n : b \in BeamWidths, h \in NumHypotheses,
                      r \in ReplaceUnknownTargets, n \in DecodingNoises}

\* The labels of a batch: the target ids and their length.
Labels == [ids |-> Tensor("ids", <<>>), ids_out |-> Tensor("ids_out", <<>>),
           length |-> Tensor("length", <<>>)]

\* A caller that constructs a model, initializes it, may export it for
\* TensorFlow Lite, and calls it.
NextModel ==
  \/ \E source_inputter \in SourceInputters, target_inputter \in TargetInputters,
        decoder \in Decoders, share_embeddings \in SharingLevels :
       Construct(source_inputter, target_inputter, decoder, share_embeddings)
  \/ \E params \in DecodingParams : Initialize(params)
  \/ SetTfliteMode
  \/ \E labels \in {PyNone, PyDict(Labels)},
        training \in {PyNone, PyBool(FALSE), PyBool(TRUE)} :
       Call(labels, training)

SpecModel == InitModel /\ [][NextModel]_vars

\* tf.argmax(row): the index of a largest value of a row; which one is
\* returned when several are largest is not specified.
ArgMaxRow(row) == {i - 1 : i \in {j \in DOMAIN row : \A k \in DOMAIN row : row[k] <= row[j]}}

\* tf.argmax(attention, axis=-1): the alignments it can return, each an
\* index into the source for every batch element and target position.
argmax(attention) ==
  {alignment \in [DOMAIN attention ->
                    [DOMAIN attention[1] -> 0 .. Len(attention[1][1]) - 1]] :
     \A b \in DOMAIN attention : \A t \in DOMAIN attention[b] :
       alignment[b][t] \in ArgMaxRow(attention[b][t])}

\* tf.gather(tokens, alignment, axis=1, batch_dims=1)
gather(tokens, alignment) ==
  [b \in DOMAIN alignment |->
     [t \in DOMAIN alignment[b] |-> tokens[b][alignment[b][t] + 1]]]

\* align_tokens_from_attention(tokens, attention): the tensors it can return.
align_tokens_from_attention(tokens, attention) ==
  {gather(tokens, alignment) : alignment \in argmax(attention)}

\* tf.where(tf.equal(a, value), x=x, y=y), element by element
where_equal(a, value, x, y) ==
  [b \in DOMAIN a |-> [t \in DOMAIN a[b] |-> IF a[b][t] = value THEN x[b][t] ELSE y[b][t]]]

\* replace_unknown_target that returns the aligned source tokens everywhere.
replace_unknown_target_everywhere(target_tokens, source_tokens, attention, unknown_token) ==
  align_tokens_from_attention(source_tokens, attention)

\* replace_unknown_target(target_tokens, source_tokens, attention,
\* unknown_token): the tensors it can return.
replace_unknown_target(target_tokens, source_tokens, attention, unknown_token) ==
  {where_equal(target_tokens, unknown_token, aligned_source_tokens, target_tokens) :
     aligned_source_tokens \in align_tokens_from_attention(source_tokens, attention)}

\* constants.UNKNOWN_TOKEN
UNKNOWN_TOKEN == "<unk>"

\* replace_unknown_target(target_tokens, source_tokens, attention) on the
\* tensors the caller holds
ReplaceUnknownTarget ==
  /\ last.op = "tensors"
  /\ \E replaced \in replace_unknown_target(last.args.target_tokens,
                                            last.args.source_tokens,
                                            last.args.attention, UNKNOWN_TOKEN) :
       last' = [last EXCEPT !.op = "replace_unknown_target",
                            !.ret = [raised |-> "none", value |-> replaced]]
  /\ UNCHANGED <<heap, vocab, pruned, special_tokens, disk, model, frame>>

\* The rows the tensors are made of: target sentences of two tokens, source
\* sentences of three tokens, and attention rows over three source positions,
\* one of them with two largest weights.
TargetRows ==
  {<<UNKNOWN_TOKEN, "cat">>, <<"cat", UNKNOWN_TOKEN>>,
   <<UNKNOWN_TOKEN, UNKNOWN_TOKEN>>, <<"the", "cat">>}

SourceRows == {<<"the", "cat", "sat">>, <<"sat", UNKNOWN_TOKEN, "mat">>}

AttentionRows == {<<0, 2, 1>>, <<2, 1, 0>>, <<1, 1, 2>>, <<1, 1, 0>>}

\* A caller that holds the tensors of a batch of two sentences.
InitReplace ==
  /\ heap = <<>>
  /\ vocab = Null
  /\ pruned = Null
  /\ special_tokens = [is_none |-> TRUE, tokens |-> <<>>]
  /\ disk = NoFile
  /\ model = NoModel
  /\ frame = NoFrame
  /\ \E t1, t2 \in TargetRows, s1, s2 \in SourceRows,
        a11, a12, a21, a22 \in AttentionRows :
       last = [op |-> "tensors", via |-> "module",
               args |-> [target_tokens |-> <<t1, t2>>,
                         source_tokens |-> <<s1, s2>>,
                         attention |-> <<<<a11, a12>>, <<a21, a22>>>>],
               pre |-> <<>>, ret |-> [raised |-> "none"]]

NextReplace == ReplaceUnknownTarget

SpecReplace == InitReplace /\ [][NextReplace]_vars

\* The parameters of the loss: each is left out or set.
ContrastiveLearnings == {EmptyDict, [contrastive_learning |-> PyBool(TRUE)]}

GuidedAlignmentTypes == {EmptyDict, [guided_alignment_type |-> PyStr(<<"c", "e">>)]}

LabelSmoothings == {EmptyDict, [label_smoothing |-> PyFloat("0.1")]}

LossParams ==
  {c @@ g @@ l : c \in ContrastiveLearnings, g \in GuidedAlignmentTypes,
                 l \in LabelSmoothings}

\* The labels of a batch, with or without a noisy target and with or without
\* a gold alignment.
NoisyTargets ==
  {EmptyDict,
   [noisy_ids |-> Tensor("noisy_ids", <<>>), noisy_ids_out |-> Tensor("noisy_ids_out", <<>>),
    noisy_length |-> Tensor("noisy_length", <<>>)]}

GoldAlignments == {EmptyDict, [alignment |-> Tensor("alignment", <<>>)]}

LossLabels == {PyDict(Labels @@ n @@ a) : n \in NoisyTargets, a \in GoldAlignments}

\* The outputs passed to compute_loss: the logits alone, or the dict of a
\* teacher-forced decode, with or without attention and noisy logits.
LossOutputs ==
  LET encoder_outputs == Encoder("encoder", "features")
      state == DecoderInitialState(encoder_outputs)
      gold(decoder) == Decoder(decoder, "ids", state)
      noisy(decoder) == Decoder(decoder, "noisy_ids", state)
      outputs(decoder) ==
        [logits |-> gold(decoder).logits, attention |-> gold(decoder).attention]
  IN {gold([attention |-> FALSE]).logits}
     \cup {PyDict(outputs(decoder)) : decoder \in Decoders}
     \cup {PyDict(DictSet(outputs(decoder), "noisy_logits", noisy(decoder).logits)) :
             decoder \in Decoders}

\* A trainer that constructs a model of two word embedders, initializes it,
\* calls it in training mode and computes losses; outputs that hold noisy
\* logits come with labels that carry the noisy target they were decoded
\* from.
NextLoss ==
  \/ \E decoder \in Decoders :
       Construct(WordEmbedder(FALSE), WordEmbedder(FALSE), decoder, NONE)
  \/ \E params \in LossParams : Initialize(params)
  \/ \E labels \in LossLabels : Call(labels, PyBool(TRUE))
  \/ \E outputs \in LossOutputs, labels \in LossLabels,
        training \in {PyBool(TRUE), PyBool(FALSE)} :
       /\ (outputs.kind = "dict" /\ "noisy_logits" \in DOMAIN outputs.d) =>
            "noisy_ids" \in DOMAIN labels.d
       /\ ComputeLoss(outputs, labels, training)

SpecLoss == InitModel /\ [][NextLoss]_vars

\* ---------------------------------------------------------------------------
\* mask_attention (sequence_to_sequence.py).  An attention tensor of shape
\* [B, T_t, T_s] is a sequence of batch elements, each a sequence of target
\* rows, each a sequence of weights over the source positions.  Source position
\* s of the code (counted from 0) is index s + 1 of a row.

\* tf.roll along the last axis: the element at position i moves to position
\* (i + shift) modulo the length, so the roll is cyclic.
roll(row, shift) ==
  [k \in 1..Len(row) |-> row[((k - 1 - shift) % Len(row)) + 1]]

roll_last_axis(attention, shift) ==
  [b \in 1..Len(attention) |->
     [t \in 1..Len(attention[b]) |-> roll(attention[b][t], shift)]]

\* tf.sequence_mask(lengths, maxlen): one where the position is below the length.
sequence_mask(lengths, maxlen) ==
  [b \in 1..Len(lengths) |->
     [s \in 1..maxlen |-> IF s - 1 < lengths[b] THEN 1 ELSE 0]]

\* tf.shape(attention)[-1]
last_dim(attention) == Len(attention[1][1])

mask_attention_no_roll(attention, source_length, source_has_bos, source_has_eos) ==
  IF ~source_has_bos /\ ~source_has_eos
  THEN attention
  ELSE LET source_mask == sequence_mask(source_length, last_dim(attention))
       IN [b \in 1..Len(attention) |->
             [t \in 1..Len(attention[b]) |->
                [s \in 1..Len(attention[b][t]) |->
                   attention[b][t][s] * source_mask[b][s]]]]

mask_attention(attention, source_length, source_has_bos, source_has_eos) ==
  IF ~source_has_bos /\ ~source_has_eos
  THEN attention
  ELSE LET rolled == IF source_has_bos
                     THEN roll_last_axis(attention, -1)
                     ELSE attention
           source_mask == sequence_mask(source_length, last_dim(rolled))
       IN \* the mask is expanded along the target axis and multiplied in
          [b \in 1..Len(rolled) |->
             [t \in 1..Len(rolled[b]) |->
                [s \in 1..Len(rolled[b][t]) |->
                   rolled[b][t][s] * source_mask[b][s]]]]

MaskAttention ==
  /\ last.op = "attention"
  /\ last' = [last EXCEPT
                !.op = "mask_attention",
                !.ret = [raised |-> "none",
                         value |-> mask_attention(last.args.attention,
                                                  last.args.source_length,
                                                  last.args.source_has_bos,
                                                  last.args.source_has_eos)]]
  /\ UNCHANGED <<heap, vocab, pruned, special_tokens, disk, model, frame>>

\* Attention rows over four source positions (markers included).
MaskRows == {<<5, 1, 2, 3>>, <<7, 4, 0, 6>>, <<1, 1, 1, 1>>}

\* The number of markers the inputter injected into every source sentence.
Markers(source_has_bos, source_has_eos) ==
  (IF source_has_bos THEN 1 ELSE 0) + (IF source_has_eos THEN 1 ELSE 0)

\* A caller that holds the attention of a batch of two sentences with two
\* target positions each.  The source lengths exclude the injected markers, so
\* a sentence and its markers fit in the source axis of the attention.
InitMask ==
  /\ heap = <<>>
  /\ vocab = Null
  /\ pruned = Null
  /\ special_tokens = [is_none |-> TRUE, tokens |-> <<>>]
  /\ disk = NoFile
  /\ model = NoModel
  /\ frame = NoFrame
  /\ \E a11, a12, a21, a22 \in MaskRows, source_has_bos, source_has_eos \in BOOLEAN :
       \E l1, l2 \in 0..(Len(a11) - Markers(source_has_bos, source_has_eos)) :
         last = [op |-> "attention", via |-> "module",
                 args |-> [attention |-> <<<<a11, a12>>, <<a21, a22>>>>,
                           source_length |-> <<l1, l2>>,
                           source_has_bos |-> source_has_bos,
                           source_has_eos |-> source_has_eos],
                 pre |-> <<>>, ret |-> [raised |-> "none"]]

NextMask == MaskAttention

SpecMask == InitMask /\ [][NextMask]_vars

\* ---------------------------------------------------------------------------
\* pad_to_multiple, one loop iteration at a time.  `frame` is the activation of
\* pad_to_multiple while it runs: its arguments, its local i, and the heap at
\* the call.

\* The condition of the while loop.
PadCondition(self, multiple, num_oov_buckets) ==
  (size(self) + num_oov_buckets) % multiple # 0

\* A loop body that moves on to the next name only after a name that was new.
PadBody_skip_known(self, i) ==
  IF SyntheticToken(i) \in DOMAIN self.token_to_id
    THEN [self |-> self, i |-> i]
  ELSE [self |-> add(self, SyntheticToken(i)), i |-> i + 1]

\* The body of the while loop: self.add("averyunlikelytoken%d" % i); i += 1
PadBody(self, i) ==
  [self |-> add(self, SyntheticToken(i)), i |-> i + 1]

\* The tokens a caller adds before padding, two synthetic names among them.
PadTokens == {TokA, SyntheticToken(0), SyntheticToken(1)}

\* vocab.pad_to_multiple(multiple, num_oov_buckets) is called: i = 0
PadCall(multiple, num_oov_buckets) ==
  /\ ~frame.active
  /\ WithinBounds(heap[vocab])
  /\ frame' = [active |-> TRUE, multiple |-> multiple,
               num_oov_buckets |-> num_oov_buckets, i |-> 0, pre |-> heap]
  /\ last' = [op |-> "call pad_to_multiple", via |-> "vocab",
              args |-> [multiple |-> multiple, num_oov_buckets |-> num_oov_buckets],
              pre |-> heap, ret |-> [raised |-> "none"]]
  /\ UNCHANGED <<heap, vocab, pruned, special_tokens, disk, model>>

\* The loop condition holds: one iteration of the body.
PadStep ==
  /\ frame.active
  /\ PadCondition(heap[vocab], frame.multiple, frame.num_oov_buckets)
  /\ LET body == PadBody(heap[vocab], frame.i)
     IN /\ heap' = HeapPut(heap, vocab, body.self)
        /\ frame' = [frame EXCEPT !.i = body.i]
  /\ UNCHANGED <<vocab, pruned, special_tokens, last, disk, model>>

\* The loop condition fails: pad_to_multiple returns.  The record of the call
\* keeps the number of iterations the loop made.
PadReturn ==
  /\ frame.active
  /\ ~PadCondition(heap[vocab], frame.multiple, frame.num_oov_buckets)
  /\ frame' = NoFrame
  /\ last' = [op |-> "pad_to_multiple", via |-> "vocab",
              args |-> [multiple |-> frame.multiple,
                        num_oov_buckets |-> frame.num_oov_buckets],
              pre |-> frame.pre,
              ret |-> [raised |-> "none", iterations |-> frame.i]]
  /\ UNCHANGED <<heap, vocab, pruned, special_tokens, disk, model>>

\* A caller that adds tokens to a Vocab and pads it; it makes no other call
\* while pad_to_multiple runs.
NextPad ==
  \/ \E token \in PadTokens : ~frame.active /\ Add("vocab", token)
  \/ \E multiple \in Multiples, num_oov_buckets \in OovBuckets :
       PadCall(multiple, num_oov_buckets)
  \/ PadStep
  \/ PadReturn

\* A call that has started keeps running: the loop takes its next iteration
\* while its condition holds and returns once it fails.
SpecPad ==
  Init /\ [][NextPad]_vars /\ WF_vars(PadStep) /\ WF_vars(PadReturn)

\* ---------------------------------------------------------------- claims

\* The tokens of a Vocab, as a set.
Tokens(self) == {self.id_to_token[i] : i \in DOMAIN self.id_to_token}

\* token_to_id and id_to_token are inverse of each other, the frequency list
\* is aligned with them, and lookup maps every known token to its id and
\* every id to its token.
Inverse(self) ==
  /\ {self.token_to_id[t] : t \in DOMAIN self.token_to_id} = 0 .. size(self) - 1
  /\ \A i, j \in DOMAIN self.id_to_token :
       i # j => self.id_to_token[i] # self.id_to_token[j]
  /\ \A t \in DOMAIN self.token_to_id :
       /\ self.token_to_id[t] \in 0 .. size(self) - 1
       /\ self.id_to_token[self.token_to_id[t] + 1] = t
  /\ Len(self.frequency) = Len(self.id_to_token)
  /\ \A t \in DOMAIN self.token_to_id :
       lookup(self, t, PyNone) = [raised |-> "none", value |-> PyInt(self.token_to_id[t])]
  /\ \A i \in DOMAIN self.id_to_token :
       lookup(self, PyInt(i - 1), PyNone) = [raised |-> "none", value |-> self.id_to_token[i]]

\* C1: in every state reached by constructing a Vocab, with or without
\* special tokens, and then applying add, load and pad_to_multiple,
\* token_to_id and id_to_token are inverse of each other: the ids are exactly
\* 0..size-1, no token appears twice in id_to_token,
\* id_to_token[token_to_id[t]] == t, the frequency list has the length of
\* id_to_token, lookup(t) is the id of t and lookup(id) is t.
C1_LookupSymmetry == Inverse(heap[vocab])

\* The Vocab prune was called on, and the Vocab it returned.
PruneOld == last.pre[vocab]

PruneNew == heap[pruned]

\* C2: prune with max_size = 0 and any min_frequency never removes a special
\* token, and the special tokens keep their ids 0..k-1 (and their infinite
\* frequency) in the pruned vocabulary.
C2_SpecialTokensKept ==
  (last.op = "prune" /\ last.args.max_size = 0) =>
    \A i \in DOMAIN special_tokens.tokens :
      /\ i <= size(PruneNew)
      /\ PruneNew.id_to_token[i] = special_tokens.tokens[i]
      /\ PruneNew.frequency[i] = Inf

\* C2 witness: a vocabulary with two distinct special tokens is pruned with a
\* min_frequency that drops one token and keeps another one.
C2_Witness ==
  /\ last.op = "prune" /\ last.args.max_size = 0
  /\ special_tokens.tokens = <<BOS, EOS>>
  /\ size(PruneNew) < size(PruneOld)
  /\ size(PruneNew) > 2

\* C3: every entry of the vocabulary returned by prune has a frequency
\* greater than or equal to min_frequency, also when every entry of the
\* original is below min_frequency.
C3_MinFrequencyMet ==
  last.op = "prune" =>
    \A i \in DOMAIN PruneNew.frequency :
      ~FreqLT(PruneNew.frequency[i], last.args.min_frequency)

\* C4: prune returns a new, independent Vocab and does not mutate the
\* original: the attributes of the original are unchanged by the call, and a
\* later add, load or pad_to_multiple on one of the two does not change the
\* other.
C4_PruneIndependent ==
  /\ last.op = "prune" => pruned # vocab /\ heap[vocab] = last.pre[vocab]
  /\ (last.op \in {"add", "load", "pad_to_multiple"} /\ pruned # Null) =>
       IF last.via = "vocab" THEN heap[pruned] = last.pre[pruned]
       ELSE heap[vocab] = last.pre[vocab]

\* C4 witness: with both vocabularies holding tokens, a call on the pruned
\* one has changed it.
C4_Witness ==
  /\ last.op \in {"add", "load", "pad_to_multiple"} /\ last.via = "pruned"
  /\ heap[pruned] # last.pre[pruned]
  /\ size(heap[vocab]) > 0
  /\ size(last.pre[pruned]) > 0

\* Id j comes before id k in the order of prune: by frequency descending, and
\* among equal frequencies by id ascending.
Before(frequency, j, k) ==
  \/ FreqLT(frequency[k + 1], frequency[j + 1])
  \/ frequency[j + 1] = frequency[k + 1] /\ j < k

\* The position of id k in that order.
Rank(frequency, k) ==
  Cardinality({j \in 0 .. Len(frequency) - 1 : Before(frequency, j, k)})

\* C5: the result of prune(max_size, min_frequency) is a prefix of the
\* original ids sorted by frequency descending, ties kept in ascending id
\* order, renumbered 0..n-1 in that order, with n <= max_size when
\* max_size > 0; the result is a function of the vocabulary and the
\* arguments.
C5_PrunedIsSortedPrefix ==
  last.op = "prune" =>
    LET n == size(PruneNew)
    IN /\ n <= size(PruneOld)
       /\ last.args.max_size > 0 => n <= last.args.max_size
       /\ Len(PruneNew.frequency) = n
       /\ \A k \in 0 .. size(PruneOld) - 1 :
            LET r == Rank(PruneOld.frequency, k)
            IN r < n =>
                 /\ PruneNew.id_to_token[r + 1] = PruneOld.id_to_token[k + 1]
                 /\ PruneNew.frequency[r + 1] = PruneOld.frequency[k + 1]
       /\ DOMAIN PruneNew.token_to_id = Tokens(PruneNew)
       /\ \A t \in DOMAIN PruneNew.token_to_id :
            /\ PruneNew.token_to_id[t] \in 0 .. n - 1
            /\ PruneNew.id_to_token[PruneNew.token_to_id[t] + 1] = t

\* C5 witness: a prune capped by max_size of a vocabulary with two entries of
\* equal finite frequency, which moves an entry to a lower id.
C5_Witness ==
  /\ last.op = "prune"
  /\ last.args.max_size > 0
  /\ size(PruneNew) = last.args.max_size
  /\ size(PruneNew) < size(PruneOld)
  /\ \E i, j \in DOMAIN PruneOld.frequency :
       i # j /\ PruneOld.frequency[i] = PruneOld.frequency[j] /\ PruneOld.frequency[i] # Inf
  /\ \E i \in DOMAIN PruneNew.id_to_token :
       PruneNew.id_to_token[i] # PruneOld.id_to_token[i]

\* The Vocab the last call was made on, before and after the call.
CallOld == last.pre[Ref(last.via)]

CallNew == heap[Ref(last.via)]

\* C6: after pad_to_multiple(m, b) returns, (size + b) % m == 0 and every
\* token present before the call is still present with the same id.
C6_PaddedToMultiple ==
  last.op = "pad_to_multiple" =>
    /\ (size(CallNew) + last.args.num_oov_buckets) % last.args.multiple = 0
    /\ \A t \in DOMAIN CallOld.token_to_id :
         /\ t \in DOMAIN CallNew.token_to_id
         /\ CallNew.token_to_id[t] = CallOld.token_to_id[t]
    /\ SubSeq(CallNew.id_to_token, 1, size(CallOld)) = CallOld.id_to_token

\* C6 witness: a pad_to_multiple that appended two tokens to a vocabulary
\* that held one of the synthetic names.
C6_Witness ==
  /\ last.op = "pad_to_multiple"
  /\ last.args.num_oov_buckets > 0
  /\ size(CallNew) = size(CallOld) + 2
  /\ SyntheticToken(0) \in DOMAIN CallOld.token_to_id

\* C7: pad_to_multiple only appends tokens that were absent before the call:
\* the frequency of every token present before is unchanged, and the call
\* changes nothing when (size + num_oov_buckets) % multiple == 0 holds
\* already.
C7_PadOnlyAppends ==
  last.op = "pad_to_multiple" =>
    /\ SubSeq(CallNew.frequency, 1, size(CallOld)) = CallOld.frequency
    /\ (size(CallOld) + last.args.num_oov_buckets) % last.args.multiple = 0
         => CallNew = CallOld

\* C8: lookup(identifier, default) never raises: for a string it returns the
\* id or default; for an integer it returns the token only if
\* 0 <= id < size, and default for every other integer.
C8_LookupTotal ==
  last.op = "lookup" =>
    LET identifier == last.args.identifier
        expected ==
          IF IsText(identifier)
            THEN IF as_text(identifier) \in DOMAIN CallOld.token_to_id
                   THEN PyInt(CallOld.token_to_id[as_text(identifier)])
                   ELSE last.args.default
          ELSE IF 0 <= identifier.n /\ identifier.n < size(CallOld)
            THEN CallOld.id_to_token[identifier.n + 1]
          ELSE last.args.default
    IN last.ret = [raised |-> "none", value |-> expected]

\* C9: add(token) on an unseen token appends it at id = previous size with
\* frequency 1 and leaves the id and frequency of every existing entry
\* unchanged; add(token) on a known token leaves size and all ids unchanged
\* and increments only that token's frequency by one, an infinite frequency
\* staying infinite.  The token is the text add normalises its argument to.
C9_AddAppendsOrIncrements ==
  last.op = "add" =>
    LET text == as_text(last.args.token)
    IN IF text \notin DOMAIN CallOld.token_to_id
         THEN /\ CallNew.id_to_token = Append(CallOld.id_to_token, text)
              /\ CallNew.frequency = Append(CallOld.frequency, 1)
              /\ DOMAIN CallNew.token_to_id = DOMAIN CallOld.token_to_id \cup {text}
              /\ CallNew.token_to_id[text] = size(CallOld)
              /\ \A t \in DOMAIN CallOld.token_to_id :
                   CallNew.token_to_id[t] = CallOld.token_to_id[t]
         ELSE /\ CallNew.id_to_token = CallOld.id_to_token
              /\ CallNew.token_to_id = CallOld.token_to_id
              /\ DOMAIN CallNew.frequency = DOMAIN CallOld.frequency
              /\ \A i \in DOMAIN CallOld.frequency :
                   CallNew.frequency[i] =
                     IF i # CallOld.token_to_id[text] + 1 THEN CallOld.frequency[i]
                     ELSE IF CallOld.frequency[i] = Inf THEN Inf
                     ELSE CallOld.frequency[i] + 1

\* C9 witness: add of a bytes token whose text is known, in a vocabulary that
\* holds special tokens, has raised the count of the text.
C9_Witness ==
  /\ last.op = "add"
  /\ last.args.token = BytesA
  /\ TokA \in DOMAIN CallOld.token_to_id
  /\ CallOld.frequency[1] = Inf
  /\ CallNew.frequency[CallNew.token_to_id[TokA] + 1] = 2

\* The tokens of the lines of a default-format file.
FileTokens(content) ==
  LET lines == ReadLines(content, <<>>)
  IN [i \in DOMAIN lines |-> PyStr(rstrip(lines[i], {"\r", "\n"}))]

\* The 1-based numbers of the lines of a file that hold the first occurrence
\* of a token the Vocab does not know.
NewLines(self, content) ==
  LET tokens == FileTokens(content)
  IN {i \in DOMAIN tokens :
        /\ tokens[i] \notin DOMAIN self.token_to_id
        /\ \A j \in 1 .. i - 1 : tokens[j] # tokens[i]}

\* C10: loading a default-format file into a vocabulary that holds k entries
\* assigns ids k, k+1, ... to the first occurrences of the tokens it does not
\* know, in line order; every other line is skipped with a warning that
\* carries its 1-based line number and changes no size, id or frequency; the
\* resulting size is k plus the number of distinct new tokens.
C10_LoadKeepsFirst ==
  (last.op = "load" /\ last.args.file_format = "default") =>
    LET tokens == FileTokens(last.args.content)
        new_lines == NewLines(CallOld, last.args.content)
        skipped == (DOMAIN tokens) \ new_lines
        k == size(CallOld)
        NewId(i) == k + Cardinality({j \in new_lines : j < i})
        warnings == last.ret.warnings
    IN /\ last.ret.raised = "none"
       /\ size(CallNew) = k + Cardinality(new_lines)
       /\ Len(CallNew.frequency) = size(CallNew)
       /\ SubSeq(CallNew.id_to_token, 1, k) = CallOld.id_to_token
       /\ SubSeq(CallNew.frequency, 1, k) = CallOld.frequency
       /\ \A t \in DOMAIN CallOld.token_to_id :
            CallNew.token_to_id[t] = CallOld.token_to_id[t]
       /\ \A i \in new_lines :
            /\ CallNew.id_to_token[NewId(i) + 1] = tokens[i]
            /\ CallNew.token_to_id[tokens[i]] = NewId(i)
            /\ CallNew.frequency[NewId(i) + 1] = 1
       /\ Len(warnings) = Cardinality(skipped)
       /\ \A n \in DOMAIN warnings :
            /\ warnings[n].line \in skipped
            /\ warnings[n].token = tokens[warnings[n].line]
            /\ Cardinality({j \in skipped : j < warnings[n].line}) = n - 1

\* C10 witness: a load into a non-empty vocabulary that added one token and
\* skipped two lines, the first line among them.
C10_Witness ==
  /\ last.op = "load" /\ last.args.file_format = "default"
  /\ size(CallOld) > 0
  /\ size(CallNew) = size(CallOld) + 1
  /\ Len(last.ret.warnings) = 2
  /\ last.ret.warnings[1].line = 1

\* C11: load(path, format) with a format other than "default" and
\* "sentencepiece" fails with the invalid-format error (ValueError) before it
\* reads any line of the file, logs no warning, and leaves the vocabulary
\* exactly as it was before the call.
C11_InvalidFormatRejected ==
  (last.op = "load" /\ last.args.file_format \notin {"default", "sentencepiece"}) =>
    /\ last.ret.raised = "ValueError"
    /\ last.ret.read = 0
    /\ last.ret.warnings = <<>>
    /\ CallNew = CallOld
    /\ heap = last.pre

\* C11 witness: a load with an invalid format of a file that holds a token
\* the vocabulary does not know, into a vocabulary that is not empty.
C11_Witness ==
  /\ last.op = "load" /\ last.args.file_format = "binary"
  /\ last.ret.raised = "ValueError"
  /\ size(CallOld) > 0
  /\ NewLines(CallOld, last.args.content) # {}

\* C12: for any Vocab built from a token list with no duplicates,
\* serializing it and loading the file in the default format into a new Vocab
\* gives the same id_to_token sequence and the same size.
C12_SerializeLoadRoundTrip ==
  (/\ last.op = "from_file" /\ last.args.file_format = "default"
   /\ disk = serialize(heap[vocab])
   /\ \A i, j \in DOMAIN heap[vocab].id_to_token :
        i # j => heap[vocab].id_to_token[i] # heap[vocab].id_to_token[j]) =>
    /\ last.ret.raised = "none"
    /\ last.ret.vocab.id_to_token = heap[vocab].id_to_token
    /\ size(last.ret.vocab) = size(heap[vocab])

\* C13: the forward call encodes the source first, then runs the
\* teacher-forced decoding exactly when labels are supplied and the dynamic
\* decoding exactly when it is not in training mode (training is False or
\* None): when it returns, the outputs are non-null iff labels were given and
\* the predictions are non-null iff it was not training, so that both are
\* produced when labels are given and training is false, and both are null
\* when training with no labels.
C13_CallDecodes ==
  last.op = "call" =>
    LET calls == last.ret.calls
        with_labels == last.args.labels.kind # "none"
        in_training == last.args.training = PyBool(TRUE)
    IN /\ calls = <<"encoder">>
                  \o (IF with_labels THEN <<"_decode_target">> ELSE <<>>)
                  \o (IF in_training THEN <<>> ELSE <<"_dynamic_decode">>)
       /\ last.ret.raised = "none" =>
            /\ last.ret.outputs.kind # "none" <=> with_labels
            /\ last.ret.predictions.kind # "none" <=> ~in_training

\* C13 witness: a call with labels and training = False that returned both
\* outputs and predictions.
C13_Witness ==
  /\ last.op = "call"
  /\ last.args.labels.kind # "none"
  /\ last.args.training = PyBool(FALSE)
  /\ last.ret.raised = "none"
  /\ last.ret.outputs.kind = "dict"
  /\ last.ret.predictions.kind = "dict"

\* The last call ran the dynamic decoding.
Decoded == last.op = "call" /\ last.args.training # PyBool(TRUE)

\* The beam width and the number of hypotheses the model is configured with.
BeamWidth == Get(model.params, "beam_width", PyInt(1)).n

Hypotheses == Get(model.params, "num_hypotheses", PyInt(1)).n

\* The numbers of hypotheses per input of the values in the predictions
\* returned: of each entry of the dict, or of the tensor of ids that the lite
\* mode returns.
Returned ==
  LET predictions == last.ret.predictions
  IN IF predictions.kind = "dict"
       THEN {predictions.d[key].hyp : key \in DOMAIN predictions.d}
     ELSE {predictions.hyp}

\* replace_unknown_target is set on a model whose decoder returns no
\* alignment history or whose source inputter is not a WordEmbedder.
CannotReplaceUnknown ==
  /\ truthy(Get(model.params, "replace_unknown_target", PyBool(FALSE)))
  /\ \/ ~model.decoder.attention
     \/ model.features_inputter.class # "WordEmbedder"

\* C14: dynamic decoding returns at most num_hypotheses predictions per
\* input and fails with ValueError whenever the configured num_hypotheses
\* exceeds the beam width, in every decoding mode: in the lite serving mode
\* too, and on the text and on the tokens output path.
C14_HypothesesChecked ==
  Decoded =>
    /\ Hypotheses > BeamWidth => last.ret.raised = "ValueError"
    /\ last.ret.raised = "none" => \A n \in Returned : n <= Hypotheses

\* C14, amended: outside the lite serving mode, on the text and on the tokens
\* output path, dynamic decoding returns no predictions whenever
\* num_hypotheses exceeds the beam width (it raises ValueError, unless the
\* TypeError of replace_unknown_target is raised first), it returns exactly
\* num_hypotheses predictions per input when 0 < num_hypotheses <= beam
\* width, and all beam_width of them when num_hypotheses <= 0.  In the lite
\* serving mode num_hypotheses is not looked at: ids of one hypothesis per
\* input are returned unless the TypeError of replace_unknown_target is
\* raised.
C14_HypothesesCheckedOutsideLite ==
  Decoded =>
    IF model.tflite_mode
      THEN /\ last.ret.raised = (IF CannotReplaceUnknown THEN "TypeError" ELSE "none")
           /\ last.ret.raised = "none" => Returned = {1}
    ELSE /\ Hypotheses > BeamWidth =>
              last.ret.raised = (IF CannotReplaceUnknown THEN "TypeError" ELSE "ValueError")
         /\ (last.ret.raised = "none" /\ Hypotheses > 0) => Returned = {Hypotheses}
         /\ (last.ret.raised = "none" /\ Hypotheses <= 0) => Returned = {BeamWidth}

\* C14 witness: outside the lite mode, a dynamic decoding with num_hypotheses
\* above the beam width that raised ValueError.
C14_Witness ==
  /\ Decoded /\ ~model.tflite_mode
  /\ Hypotheses > BeamWidth
  /\ last.ret.raised = "ValueError"
  /\ ~truthy(Get(model.params, "decoding_noise", PyNone))

\* C15: when replace_unknown_target is enabled, dynamic decoding fails with
\* TypeError and returns no predictions if the decoder returned no alignment
\* history or if the source inputter is not a plain WordEmbedder; when
\* replace_unknown_target is disabled neither condition causes a failure: no
\* TypeError is raised, and the decoding returns unless decoding noise or the
\* number of hypotheses makes it fail.
C15_UnknownReplacementChecked ==
  Decoded =>
    /\ CannotReplaceUnknown =>
         /\ last.ret.raised = "TypeError"
         /\ last.ret.predictions.kind = "none"
         /\ last.ret.outputs.kind = "none"
    /\ ~truthy(Get(model.params, "replace_unknown_target", PyBool(FALSE))) =>
         /\ last.ret.raised # "TypeError"
         /\ (/\ Hypotheses <= BeamWidth
             /\ ~truthy(Get(model.params, "decoding_noise", PyNone))) =>
              last.ret.raised = "none"

\* C15 witness: replace_unknown_target is enabled, the decoder returns the
\* alignment history, the source inputter is not a WordEmbedder, and the
\* dynamic decoding raised TypeError.
C15_Witness ==
  /\ Decoded
  /\ truthy(Get(model.params, "replace_unknown_target", PyBool(FALSE)))
  /\ model.decoder.attention
  /\ model.features_inputter.class = "CharEmbedder"
  /\ last.ret.raised = "TypeError"

\* C16: replace_unknown_target(target, source, attention) returns a tensor of
\* the shape of target in which, for every batch element b and target
\* position t, the value is source[b][s] for a position s where
\* attention[b][t] is largest if target[b][t] is the unknown token, and
\* target[b][t] otherwise: a position that does not hold the unknown token is
\* never changed.
C16_UnknownReplaced ==
  last.op = "replace_unknown_target" =>
    LET target == last.args.target_tokens
        source == last.args.source_tokens
        attention == last.args.attention
        replaced == last.ret.value
    IN /\ DOMAIN replaced = DOMAIN target
       /\ \A b \in DOMAIN target :
            /\ DOMAIN replaced[b] = DOMAIN target[b]
            /\ \A t \in DOMAIN target[b] :
                 IF target[b][t] = UNKNOWN_TOKEN
                   THEN \E s \in DOMAIN attention[b][t] :
                          /\ \A k \in DOMAIN attention[b][t] :
                               attention[b][t][k] <= attention[b][t][s]
                          /\ replaced[b][t] = source[b][s]
                 ELSE replaced[b][t] = target[b][t]

\* C16 witness: the first sentence is <unk> cat, its source is the cat sat,
\* the attention of its first position is largest on "cat", and the result is
\* cat cat; the second sentence has another source and no unknown token and
\* is returned as it was.
C16_Witness ==
  /\ last.op = "replace_unknown_target"
  /\ last.args.target_tokens = <<<<UNKNOWN_TOKEN, "cat">>, <<"the", "cat">>>>
  /\ last.args.source_tokens[1] = <<"the", "cat", "sat">>
  /\ last.args.source_tokens[2] # last.args.source_tokens[1]
  /\ last.args.attention[1][1] = <<0, 2, 1>>
  /\ last.ret.value = <<<<"cat", "cat">>, <<"the", "cat">>>>

\* contrastive_learning is enabled in the parameters of the model.
Contrastive == truthy(Get(model.params, "contrastive_learning", PyNone))

\* The outputs passed to the last compute_loss hold noisy logits.
NoisyLogitsGiven ==
  /\ last.args.outputs.kind = "dict"
  /\ Get(last.args.outputs.d, "noisy_logits", PyNone).kind # "none"

\* The functions whose values the last compute_loss summed.
LossTerms == {last.ret.loss[i].fn : i \in DOMAIN last.ret.loss}

\* C17: compute_loss returns the max-margin loss exactly when
\* contrastive_learning is enabled and the outputs contain noisy logits, and
\* otherwise the cross-entropy sequence loss with the configured label
\* smoothing; the teacher-forced decode produces noisy logits only when
\* contrastive_learning is enabled and the labels carry a noisy target, and
\* it computes them from the initial decoder state the gold decode started
\* from.
C17_LossSelected ==
  /\ last.op = "compute_loss" =>
       IF Contrastive /\ NoisyLogitsGiven
         THEN LossTerms = {"max_margin_loss"}
       ELSE /\ last.ret.loss[1].fn = "cross_entropy_sequence_loss"
            /\ last.ret.loss[1].label_smoothing =
                 Get(model.params, "label_smoothing", PyFloat("0.0"))
            /\ "max_margin_loss" \notin LossTerms
  /\ (last.op = "call" /\ last.args.labels.kind # "none") =>
       LET outputs == last.ret.outputs.d
       IN "noisy_logits" \in DOMAIN outputs =>
            /\ Contrastive
            /\ "noisy_ids" \in DOMAIN last.args.labels.d
            /\ outputs["noisy_logits"].inputs = "noisy_ids"
            /\ outputs["noisy_logits"].state = outputs["logits"].state
            /\ outputs["logits"].state.name = "initial_state"

\* C17 witness: with contrastive_learning, a call whose labels carry a noisy
\* target returned noisy logits.
C17_Witness ==
  /\ last.op = "call"
  /\ Contrastive
  /\ last.ret.outputs.kind = "dict"
  /\ "noisy_logits" \in DOMAIN last.ret.outputs.d

\* The last compute_loss was given a gold alignment and a guided alignment
\* type is configured.
GuidedAlignmentConfigured ==
  /\ "alignment" \in DOMAIN last.args.labels.d
  /\ "guided_alignment_type" \in DOMAIN model.params

\* The attention in the outputs passed to the last compute_loss, or None.
AttentionGiven ==
  IF last.args.outputs.kind = "dict"
    THEN Get(last.args.outputs.d, "attention", PyNone)
  ELSE PyNone

\* The loss holds the guided alignment penalty, computed on the attention
\* without its last step.
Penalized ==
  \E i \in DOMAIN last.ret.loss :
    /\ last.ret.loss[i].fn = "guided_alignment_cost"
    /\ last.ret.loss[i].attention = [AttentionGiven EXCEPT !.steps = "all but last"]

\* C18: during training, whenever a gold alignment and a guided alignment
\* type are both configured, the loss compute_loss returns includes the
\* guided alignment penalty (computed on the attention without its last step)
\* if the decoder produced attention, and otherwise the term is skipped with
\* a warning and no failure; when not training the penalty is never added.
C18_GuidedAlignmentAdded ==
  last.op = "compute_loss" =>
    /\ (truthy(last.args.training) /\ GuidedAlignmentConfigured) =>
         IF AttentionGiven.kind # "none"
           THEN Penalized
         ELSE /\ "guided_alignment_cost" \notin LossTerms
              /\ last.ret.warnings # <<>>
              /\ last.ret.raised = "none"
    /\ ~truthy(last.args.training) => "guided_alignment_cost" \notin LossTerms

\* C18, amended: when compute_loss returns the cross-entropy loss (it does
\* not return the max-margin loss of contrastive learning), then during
\* training, whenever a gold alignment and a guided alignment type are both
\* configured, the loss includes the guided alignment penalty (computed on
\* the attention without its last step) if the decoder produced attention,
\* and otherwise the term is skipped with a warning and no failure; when not
\* training, or when the max-margin loss is returned, the penalty is never
\* added and no warning is logged.
C18_GuidedAlignmentOnCrossEntropy ==
  last.op = "compute_loss" =>
    IF Contrastive /\ NoisyLogitsGiven
      THEN "guided_alignment_cost" \notin LossTerms /\ last.ret.warnings = <<>>
    ELSE /\ (truthy(last.args.training) /\ GuidedAlignmentConfigured) =>
              IF AttentionGiven.kind # "none"
                THEN Penalized
              ELSE /\ "guided_alignment_cost" \notin LossTerms
                   /\ last.ret.warnings # <<>>
                   /\ last.ret.raised = "none"
         /\ ~truthy(last.args.training) =>
              "guided_alignment_cost" \notin LossTerms /\ last.ret.warnings = <<>>

\* C18 witness: a compute_loss in training, with a gold alignment, a guided
\* alignment type and attention, that returned the cross-entropy loss plus
\* the penalty.
C18_Witness ==
  /\ last.op = "compute_loss"
  /\ truthy(last.args.training)
  /\ GuidedAlignmentConfigured
  /\ AttentionGiven.kind # "none"
  /\ LossTerms = {"cross_entropy_sequence_loss", "guided_alignment_cost"}

\* The predictions returned by the last call hold an alignment entry.
AlignmentReturned ==
  /\ last.ret.predictions.kind = "dict"
  /\ "alignment" \in DOMAIN last.ret.predictions.d

\* decoding_noise is set to a value that makes the decoding add noise.
NoiseConfigured == truthy(Get(model.params, "decoding_noise", PyNone))

\* C19: whenever decoding noise is applied to the predictions, the
\* predictions returned never contain an alignment entry: the alignment the
\* decoder computed is dropped; without noise and with an out-of-graph
\* tokenizer, the alignment is returned whenever the decoder produced one.
C19_NoStaleAlignment ==
  (Decoded /\ last.ret.raised = "none") =>
    /\ NoiseConfigured => ~AlignmentReturned
    /\ (/\ ~NoiseConfigured
        /\ ~model.labels_inputter.tokenizer.in_graph
        /\ model.decoder.attention) => AlignmentReturned

\* C19, amended: whenever decoding noise is applied to the predictions, the
\* predictions returned never contain an alignment entry: the alignment the
\* decoder computed is dropped; outside the lite serving mode, without noise
\* and with an out-of-graph tokenizer, the alignment is returned whenever the
\* decoder produced one, and only then; the lite serving mode returns token
\* ids without noise and never an alignment.
C19_NoStaleAlignmentOutsideLite ==
  (Decoded /\ last.ret.raised = "none") =>
    /\ NoiseConfigured => ~AlignmentReturned
    /\ model.tflite_mode =>
         /\ ~AlignmentReturned
         /\ last.ret.predictions.kind = "tensor" /\ ~last.ret.predictions.noise
    /\ (~model.tflite_mode /\ NoiseConfigured) =>
         IF model.labels_inputter.tokenizer.in_graph
           THEN last.ret.predictions.d["text"].of.noise
         ELSE last.ret.predictions.d["tokens"].noise
    /\ (/\ ~model.tflite_mode
        /\ ~NoiseConfigured
        /\ ~model.labels_inputter.tokenizer.in_graph) =>
         (AlignmentReturned <=> model.decoder.attention)

\* C19 witness: noise was added to the tokens of a decoder that returned an
\* alignment, with an out-of-graph tokenizer, and the predictions returned
\* hold the noisy tokens and no alignment.
C19_Witness ==
  /\ Decoded /\ last.ret.raised = "none"
  /\ ~model.tflite_mode
  /\ NoiseConfigured
  /\ model.decoder.attention
  /\ ~model.labels_inputter.tokenizer.in_graph
  /\ last.ret.predictions.d["tokens"].noise
  /\ ~AlignmentReturned

\* The source inputter passed to the constructor, or a branch of it when it
\* is a ParallelInputter, is not a WordEmbedder.
SourceNotEmbedder ==
  LET source == last.args.source_inputter
  IN IF source.class = "ParallelInputter"
       THEN \E i \in DOMAIN source.inputters : source.inputters[i].class # "WordEmbedder"
     ELSE source.class # "WordEmbedder"

\* C20: constructing the model fails with TypeError if the target inputter is
\* not a WordEmbedder and, exactly when the sharing level is
\* SOURCE_TARGET_INPUT or ALL, also if the source inputter, or any branch of
\* a ParallelInputter source, is not a WordEmbedder; with the level NONE or
\* TARGET the source inputter is not constrained, and the construction
\* succeeds in every other case.
C20_ConstructorTypeChecks ==
  last.op = "SequenceToSequence" =>
    LET level == last.args.share_embeddings
        target_ok == last.args.target_inputter.class = "WordEmbedder"
    IN /\ ~target_ok => last.ret.raised = "TypeError"
       /\ (target_ok /\ level \in {SOURCE_TARGET_INPUT, ALL}) =>
            (last.ret.raised = "TypeError" <=> SourceNotEmbedder)
       /\ (target_ok /\ level \in {NONE, TARGET}) => last.ret.raised = "none"
       /\ last.ret.raised \in {"none", "TypeError"}
       /\ last.ret.raised = "TypeError" => ~model.constructed
       /\ last.ret.raised = "none" =>
            /\ model.constructed
            /\ model.features_inputter = last.args.source_inputter
            /\ model.labels_inputter = last.args.target_inputter
            /\ model.share_embeddings = level

\* C20 witness: with the level ALL and a WordEmbedder target, a
\* ParallelInputter source with a branch that is not a WordEmbedder made the
\* construction raise TypeError.
C20_Witness ==
  /\ last.op = "SequenceToSequence"
  /\ last.args.share_embeddings = ALL
  /\ last.args.target_inputter.class = "WordEmbedder"
  /\ last.args.source_inputter.class = "ParallelInputter"
  /\ SourceNotEmbedder
  /\ last.ret.raised = "TypeError"

\* ---- mask_attention

Masked == last.op = "mask_attention"

\* C21: mask_attention returns the attention unchanged when the source has
\* neither a beginning nor an end marker; otherwise, for every batch element b
\* and target position t, the output weight at every source position
\* s >= source_length[b] is zero, and at s < source_length[b] it is the input
\* weight at s + 1 when a beginning marker was injected and at s otherwise.
\* (Position s of the code is index s + 1 of a row.)
C21_MaskAttention ==
  Masked =>
    LET a == last.args
        out == last.ret.value
    IN IF ~a.source_has_bos /\ ~a.source_has_eos
       THEN out = a.attention
       ELSE \A b \in 1..Len(a.attention) :
              \A t \in 1..Len(a.attention[b]) :
                \A s \in 0..(Len(a.attention[b][t]) - 1) :
                  IF s >= a.source_length[b]
                  THEN out[b][t][s + 1] = 0
                  ELSE /\ (IF a.source_has_bos THEN s + 1 ELSE s)
                             < Len(a.attention[b][t])
                       /\ out[b][t][s + 1] =
                            a.attention[b][t][(IF a.source_has_bos
                                               THEN s + 1 ELSE s) + 1]

\* A beginning and an end marker were injected around a sentence of two tokens:
\* the weights of the two tokens moved one position left, and the non-zero
\* weights of both markers are gone.
C21_Witness ==
  /\ Masked
  /\ last.args.source_has_bos /\ last.args.source_has_eos
  /\ last.args.source_length[1] = 2
  /\ last.args.attention[1][1] = <<5, 1, 2, 3>>
  /\ last.ret.value[1][1] = <<1, 2, 0, 0>>

\* ---- pad_to_multiple, termination

Padding == frame.active

PadReturned == last.op = "pad_to_multiple" /\ ~frame.active

Appended == size(heap[vocab]) - size(last.pre[vocab])

\* C22: every call of pad_to_multiple(multiple, num_oov_buckets) with
\* multiple >= 1 and num_oov_buckets >= 0 returns, whatever the vocabulary
\* holds (synthetic names included), and when it has returned the vocabulary
\* has grown by fewer than multiple tokens.
C22_PadTerminates ==
  /\ Padding ~> ~Padding
  /\ [](PadReturned => Appended < last.args.multiple)

\* A call on a vocabulary that held "averyunlikelytoken0" has returned: the
\* loop made more iterations than it appended tokens, and it appended some.
C22_Witness ==
  /\ PadReturned
  /\ SyntheticToken(0) \in DOMAIN last.pre[vocab].token_to_id
  /\ Appended > 0
  /\ last.ret.iterations > Appended

====
